---- MODULE Spec2Model ----
(***************************************************************************)
(* Hybrid retrieval-augmented question answering service                   *)
(* (FamilOrujov/hybrid-rag-kb): the ingestion pipeline, the two co-indexed *)
(* stores, reciprocal-rank fusion and the grounded-answer assembler.       *)
(*                                                                         *)
(* The specifications of this module share its variables:                  *)
(*   SpecFuse    rrf_fuse applied to drawn pairs of rankings               *)
(*   SpecCite    the assembler's clean/validate/repair pipeline applied to *)
(*               drawn chat-model outputs                                  *)
(*   SpecMatch   make_bm25_query applied to drawn query texts, and to its  *)
(*               own output                                                *)
(*   SpecIndex   FaissIndexManager: load_or_create, add, search            *)
(*   SpecIngest  /ingest with multi-file uploads interleaved with /query   *)
(*   SpecChat    turns of /query in two sessions, with one upload          *)
(*   SpecModels  POST /models with every request, uploads and restarts     *)
(*   Spec        the server: /ingest, /query, POST /models, reset, restart *)
(***************************************************************************)
EXTENDS Integers, Sequences, FiniteSets, TLC

VARIABLES
    fuse_in,        \* SpecFuse: the drawn pair of rankings
    fuse_out,       \* SpecFuse: parameters and result of the last rrf_fuse call
    cite_in,        \* SpecCite: the drawn fused list and chat-model output
    cite_out,       \* SpecCite: flags and result of the assembler's pipeline
    match_in,       \* SpecMatch: the drawn query text, mode and max_terms
    match_out,      \* SpecMatch: make_bm25_query of the text, and of that output
    \* ---- the server (Spec) ----
    db_ready,       \* data/db/app.db holds the schema's tables
    documents,      \* committed rows of documents; the row id is the position
    chunks,         \* committed rows of chunks; the row id is the position
    chunks_fts,     \* rowids of the full-text table
    chat_messages,  \* committed rows of chat_messages, oldest first
    raw_dir,        \* names of the blobs under data/raw
    index_file,     \* data/index/faiss/index.faiss
    model_config,   \* data/model_config.json
    embedder,       \* the module-level _embedder of each route module
    llm,            \* the module-level _llm of each route module
    current,        \* routes_models._current_chat_model / _current_embed_model
    faiss,          \* the module-level _faiss (FaissIndexManager) of each route module
    ing,            \* the POST /ingest request in flight
    q,              \* the POST /query request in flight
    resp,           \* the HTTP response the step just taken sent, if it sent one
    hist            \* history: what has happened to the installation so far

fuseVars == <<fuse_in, fuse_out>>
citeVars == <<cite_in, cite_out>>
matchVars == <<match_in, match_out>>
dbVars == <<db_ready, documents, chunks, chunks_fts, chat_messages>>
fileVars == <<raw_dir, index_file, model_config>>
procVars == <<embedder, llm, current, faiss>>
reqVars == <<ing, q, resp>>
serverVars == <<dbVars, fileVars, procVars, reqVars, hist>>

vars == <<fuseVars, citeVars, matchVars, serverVars>>

None == "None"

Min(a, b) == IF a <= b THEN a ELSE b

Range(s) == {s[i] : i \in 1..Len(s)}

\* Sequences over S without repetition, of length at most n.
RECURSIVE InjSeqs(_, _)
InjSeqs(S, n) ==
    IF n = 0 THEN {<<>>}
    ELSE LET shorter == InjSeqs(S, n - 1)
         IN  shorter \cup {t \in {Append(s, x) : s \in shorter, x \in S} :
                              \A i, j \in 1..Len(t) : i < j => t[i] # t[j]}

\* Every sequence over S of length at most n.
RECURSIVE SeqsUpTo(_, _)
SeqsUpTo(S, n) ==
    IF n = 0 THEN {<<>>}
    ELSE LET shorter == SeqsUpTo(S, n - 1)
         IN  shorter \cup {Append(t, x) : t \in shorter, x \in S}

(***************************************************************************)
(* Exact fractions <<numerator, denominator>>: the fused scores.  The code *)
(* computes them in binary floating point; the model keeps them exact.     *)
(***************************************************************************)
FracZero == <<0, 1>>

RECURSIVE Gcd(_, _)
Gcd(a, b) == IF b = 0 THEN a ELSE Gcd(b, a % b)

\* The sum over the least common denominator.
FracAdd(a, b) ==
    LET g == Gcd(a[2], b[2])
    IN  <<a[1] * (b[2] \div g) + b[1] * (a[2] \div g), (a[2] \div g) * b[2]>>

\* a < b for fractions that are not negative, by whole parts and then by the
\* reciprocals of the remainders (no product of two denominators is formed).
RECURSIVE FracLess(_, _)
FracLess(a, b) ==
    LET qa == a[1] \div a[2]
        qb == b[1] \div b[2]
        ra == a[1] % a[2]
        rb == b[1] % b[2]
    IN  IF qa # qb THEN qa < qb
        ELSE IF rb = 0 THEN FALSE
        ELSE IF ra = 0 THEN TRUE
        ELSE FracLess(<<b[2], rb>>, <<a[2], ra>>)

FracEq(a, b) == ~FracLess(a, b) /\ ~FracLess(b, a)

(***************************************************************************)
(* src/rag/hybrid_fusion.py                                                *)
(***************************************************************************)
\* Default of the top_k parameter (and of QueryRequest.top_k).
DefaultTopK == 8
\* Default of the rrf_k parameter.
DefaultRrfK == 60

\* Position of chunk id cid in the dict `fused` (kept in insertion order), 0 if absent.
FusedPos(fused, cid) ==
    IF \E i \in 1..Len(fused) : fused[i].chunk_id = cid
    THEN CHOOSE i \in 1..Len(fused) : fused[i].chunk_id = cid
    ELSE 0

\* enumerate(results, start=1): the rank of the i-th item.
RankOfIndex_ZeroBased(i) == i - 1
RankOfIndex(i) == i

\* A first loop whose contribution grows with the rank: w_bm25 * rank / rrf_k.
Bm25Step_RankRewarded(fused, item, rank, rrf_k, w_bm25) ==
    LET cid == item.chunk_id
        add == <<w_bm25 * rank, rrf_k>>
        p   == FusedPos(fused, cid)
    IN  IF p = 0
        THEN Append(fused, [chunk_id |-> cid, filename |-> item.filename,
                            bm25_score |-> TRUE, vec_score |-> FALSE,
                            fused_score |-> FracAdd(FracZero, add)])
        ELSE [fused EXCEPT ![p].fused_score = FracAdd(@, add)]
\* One iteration of the first loop: fused[cid]["fused_score"] += w_bm25 / (rrf_k + rank).
Bm25Step(fused, item, rank, rrf_k, w_bm25) ==
    LET cid == item.chunk_id
        add == <<w_bm25, rrf_k + rank>>
        p   == FusedPos(fused, cid)
    IN  IF p = 0
        THEN Append(fused, [chunk_id |-> cid, filename |-> item.filename,
                            bm25_score |-> TRUE, vec_score |-> FALSE,
                            fused_score |-> FracAdd(FracZero, add)])
        ELSE [fused EXCEPT ![p].fused_score = FracAdd(@, add)]

\* A second loop that never merges with an entry of the first.
VecStep_NoMerge(fused, item, rank, rrf_k, w_vec) ==
    Append(fused, [chunk_id |-> item.chunk_id, filename |-> item.filename,
                   bm25_score |-> FALSE, vec_score |-> TRUE,
                   fused_score |-> FracAdd(FracZero, <<w_vec, rrf_k + rank>>)])
\* One iteration of the second loop.
VecStep(fused, item, rank, rrf_k, w_vec) ==
    LET cid == item.chunk_id
        add == <<w_vec, rrf_k + rank>>
        p   == FusedPos(fused, cid)
    IN  IF p = 0
        THEN Append(fused, [chunk_id |-> cid, filename |-> item.filename,
                            bm25_score |-> FALSE, vec_score |-> TRUE,
                            fused_score |-> FracAdd(FracZero, add)])
        ELSE [fused EXCEPT ![p].vec_score = TRUE,
                           ![p].fused_score = FracAdd(@, add)]

RECURSIVE Bm25Loop(_, _, _, _, _)
Bm25Loop(fused, results, i, rrf_k, w_bm25) ==
    IF i > Len(results) THEN fused
    ELSE Bm25Loop(Bm25Step(fused, results[i], RankOfIndex(i), rrf_k, w_bm25),
                  results, i + 1, rrf_k, w_bm25)

RECURSIVE VecLoop(_, _, _, _, _)
VecLoop(fused, results, i, rrf_k, w_vec) ==
    IF i > Len(results) THEN fused
    ELSE VecLoop(VecStep(fused, results[i], RankOfIndex(i), rrf_k, w_vec),
                 results, i + 1, rrf_k, w_vec)

\* Insert x into a list already sorted by fused_score descending, after every
\* element whose score is not smaller (list.sort is stable, also with reverse=True).
RECURSIVE InsertDesc(_, _)
InsertDesc(sorted, x) ==
    IF sorted = <<>> THEN <<x>>
    ELSE IF FracLess(Head(sorted).fused_score, x.fused_score)
         THEN <<x>> \o sorted
         ELSE <<Head(sorted)>> \o InsertDesc(Tail(sorted), x)

RECURSIVE SortLoop(_, _, _)
SortLoop(sorted, merged, i) ==
    IF i > Len(merged) THEN sorted
    ELSE SortLoop(InsertDesc(sorted, merged[i]), merged, i + 1)

\* A sort that orders ascending (reverse=False).
SortByFusedScore_Ascending(merged) ==
    LET d == SortLoop(<<>>, merged, 1) IN [i \in 1..Len(d) |-> d[Len(d) + 1 - i]]
\* merged.sort(key=lambda x: x["fused_score"], reverse=True)
SortByFusedScore(merged) == SortLoop(<<>>, merged, 1)

\* merged[:top_k], for top_k >= 0.
Truncate_OffByOne(merged, top_k) == SubSeq(merged, 1, Min(top_k + 1, Len(merged)))
Truncate(merged, top_k) == SubSeq(merged, 1, Min(top_k, Len(merged)))

rrf_fuse(bm25_results, vec_results, rrf_k, w_bm25, w_vec, top_k) ==
    LET afterBm25 == Bm25Loop(<<>>, bm25_results, 1, rrf_k, w_bm25)
        fused     == VecLoop(afterBm25, vec_results, 1, rrf_k, w_vec)
    IN  Truncate(SortByFusedScore(fused), top_k)

(***************************************************************************)
(* Answer texts.  A text is a sequence of tokens, each standing for a      *)
(* stretch of the string the chat model returned:                          *)
(*   w       prose without a citation                                      *)
(*   pre     a preamble such as "Here is the answer:" (it matches one of   *)
(*           _clean_answer's preamble patterns when it starts a line)      *)
(*   pb      a blank line (paragraph break)                                *)
(*   refs    a heading line "References:" with its line end                *)
(*   cid     the citation "[cid:N]"                                        *)
(*   source  the citation "[Source: <filename> | cid:N]"                   *)
(*   closed  the text "[Source: <filename> | cid:N]" whose filename holds  *)
(*           a "]": the bracket closes inside the filename                 *)
(***************************************************************************)
Tok(shape, id) == [shape |-> shape, id |-> id]
W == Tok("w", 0)
PRE == Tok("pre", 0)
PB == Tok("pb", 0)
REFS == Tok("refs", 0)
CidTok(n) == Tok("cid", n)
SourceTok(n) == Tok("source", n)
ClosedTok(n) == Tok("closed", n)
IsCitation(t) == t.shape \in {"cid", "source"}

\* str.strip(): leading and trailing blank lines go.
RECURSIVE LStrip(_)
LStrip(text) == IF text # <<>> /\ Head(text) = PB THEN LStrip(Tail(text)) ELSE text
RECURSIVE RStrip(_)
RStrip(text) ==
    IF text # <<>> /\ text[Len(text)] = PB THEN RStrip(SubSeq(text, 1, Len(text) - 1)) ELSE text
Strip(text) == RStrip(LStrip(text))

(***************************************************************************)
(* src/rag/citations.py                                                    *)
(***************************************************************************)
\* re.split(r"\n\s*\n+", text.strip()) and the filter of empty parts: the
\* paragraphs, each a sequence of tokens other than pb.
RECURSIVE SplitLoop(_, _, _)
SplitLoop(text, cur, acc) ==
    IF text = <<>> THEN (IF cur = <<>> THEN acc ELSE Append(acc, cur))
    ELSE IF Head(text) = PB
         THEN SplitLoop(Tail(text), <<>>, IF cur = <<>> THEN acc ELSE Append(acc, cur))
         ELSE SplitLoop(Tail(text), Append(cur, Head(text)), acc)

split_paragraphs(text) == SplitLoop(Strip(text), <<>>, <<>>)

\* "\n\n".join(paras)
RECURSIVE JoinParagraphs(_)
JoinParagraphs(paras) ==
    IF paras = <<>> THEN <<>>
    ELSE IF Len(paras) = 1 THEN paras[1]
    ELSE paras[1] \o <<PB>> \o JoinParagraphs(Tail(paras))

\* _CID_SIMPLE and _CID_SOURCE: the ids a paragraph cites, in either shape.
extract_citations_from_paragraph(p) == {p[i].id : i \in {j \in 1..Len(p) : IsCitation(p[j])}}

\* A validator that does not hold the cited ids against the allowed ids.
ReasonOf_SkipInvalid(found, invalid, missing_paragraphs, min_unique, require) ==
    IF Cardinality(found) < min_unique THEN "not enough unique citations"
    ELSE IF require /\ missing_paragraphs # {} THEN "some paragraphs are missing citations"
    ELSE "ok"
\* The order of the three checks of validate_citations_detailed.
ReasonOf(found, invalid, missing_paragraphs, min_unique, require) ==
    IF Cardinality(found) < min_unique THEN "not enough unique citations"
    ELSE IF invalid # {} THEN "contains invalid citation ids"
    ELSE IF require /\ missing_paragraphs # {} THEN "some paragraphs are missing citations"
    ELSE "ok"

\* (ok, report).  missing_paragraphs holds 0-based paragraph indices.
validate_citations_detailed(answer_text, allowed_chunk_ids, min_unique_citations, require_citation_per_paragraph) ==
    LET allowed == Range(allowed_chunk_ids)
        paragraphs == split_paragraphs(answer_text)
        per_paragraph == [i \in 1..Len(paragraphs) |->
                              extract_citations_from_paragraph(paragraphs[i])]
        missing == IF require_citation_per_paragraph
                   THEN {i - 1 : i \in {j \in 1..Len(paragraphs) : per_paragraph[j] = {}}}
                   ELSE {}
        found == UNION {per_paragraph[i] : i \in 1..Len(paragraphs)}
        invalid == {cid \in found : cid \notin allowed}
        reason == ReasonOf(found, invalid, missing, min_unique_citations,
                           require_citation_per_paragraph)
    IN  [ok |-> reason = "ok",
         paragraph_count |-> Len(paragraphs),
         found_citations |-> found,
         invalid_ids |-> invalid,
         missing_paragraphs |-> missing,
         per_paragraph_citations |-> per_paragraph,
         reason |-> reason]

(***************************************************************************)
(* src/rag/qa.py: post-processing and repair                               *)
(***************************************************************************)
\* The preamble patterns (re.MULTILINE): a preamble that starts a line goes,
\* together with the white space after it (the trailing \s* takes blank lines).
RECURSIVE RemovePreambles(_, _)
RemovePreambles(text, atLineStart) ==
    IF text = <<>> THEN <<>>
    ELSE IF Head(text) = PRE /\ atLineStart
         THEN RemovePreambles(LStrip(Tail(text)), Tail(text) # <<>> /\ text[2] = PB)
         ELSE <<Head(text)>> \o RemovePreambles(Tail(text), Head(text) = PB)

\* The bibliography pattern \n+(References|...):?\s*\n.*$ (re.DOTALL): from the
\* line ends before the first such heading to the end of the text.
RECURSIVE CutBibliography(_, _)
CutBibliography(text, i) ==
    IF i > Len(text) THEN text
    ELSE IF text[i] = REFS /\ i > 1 /\ text[i - 1] = PB
         THEN RStrip(SubSeq(text, 1, i - 1))
         ELSE CutBibliography(text, i + 1)

\* re.sub(r"\n{3,}", "\n\n", cleaned): several blank lines become one.
RECURSIVE CollapseBlankLines(_)
CollapseBlankLines(text) ==
    IF Len(text) < 2 THEN text
    ELSE IF text[1] = PB /\ text[2] = PB THEN CollapseBlankLines(Tail(text))
    ELSE <<Head(text)>> \o CollapseBlankLines(Tail(text))

_clean_answer(answer) ==
    LET stripped == Strip(answer)
        noPre    == RemovePreambles(stripped, TRUE)
        noBib    == CutBibliography(noPre, 1)
    IN  Strip(CollapseBlankLines(Strip(noBib)))

\* cite_tokens[idx % len(cite_tokens)], idx 0-based.
TokenForParagraph(cite_tokens, idx) == cite_tokens[(idx % Len(cite_tokens)) + 1]

_inject_citations_per_paragraph(answer_text, cite_tokens, missing_paragraphs) ==
    IF cite_tokens = <<>> THEN answer_text
    ELSE LET paras == split_paragraphs(answer_text)
             fixed == [i \in 1..Len(paras) |->
                          IF (i - 1) \in missing_paragraphs
                          THEN Append(paras[i], TokenForParagraph(cite_tokens, i - 1))
                          ELSE paras[i]]
         IN  JoinParagraphs(fixed)

\* str(a) is a prefix of str(b).
RECURSIVE IsDecimalPrefix(_, _)
IsDecimalPrefix(a, b) == a = b \/ (b >= 10 /\ IsDecimalPrefix(a, b \div 10))

\* rf"\[Source:[^\]]*cid:{invalid_id}[^\]]*\]" matches the token.
MatchesInvalidPattern(t, invalid_id) ==
    t.shape = "source" /\ IsDecimalPrefix(invalid_id, t.id)

\* re.sub(pattern, replacement, answer) for one invalid id.
ReplaceInvalid(answer, invalid_id, replacement) ==
    [i \in 1..Len(answer) |->
        IF MatchesInvalidPattern(answer[i], invalid_id) THEN replacement ELSE answer[i]]

\* for invalid_id in invalid_ids (a sorted list): one re.sub each.
RECURSIVE ReplaceInvalidLoop(_, _, _)
ReplaceInvalidLoop(answer, invalid_ids, replacement) ==
    IF invalid_ids = {} THEN answer
    ELSE LET lo == CHOOSE x \in invalid_ids : \A y \in invalid_ids : x <= y
         IN  ReplaceInvalidLoop(ReplaceInvalid(answer, lo, replacement),
                                invalid_ids \ {lo}, replacement)

\* A stage of the assembler works on [answer, report, trace]; trace lists the
\* calls made so far ("chat", "validate", "inject", "rewrite").
Validated(answer, allowed_ids, min_unique, require, trace) ==
    [answer |-> answer,
     report |-> validate_citations_detailed(answer, allowed_ids, min_unique, require),
     trace  |-> Append(trace, "validate")]

\* answer = chat_model.invoke(messages).content; _clean_answer; first validation.
ChatStage(chat_output, allowed_ids, min_unique, require) ==
    Validated(_clean_answer(chat_output), allowed_ids, min_unique, require, <<"chat">>)

\* "First, try injecting missing citations".
InjectStage(st, allowed_ids, cite_tokens, min_unique, require) ==
    IF ~st.report.ok /\ st.report.missing_paragraphs # {}
    THEN Validated(_inject_citations_per_paragraph(st.answer, cite_tokens,
                                                   st.report.missing_paragraphs),
                   allowed_ids, min_unique, require, Append(st.trace, "inject"))
    ELSE st

\* A repair that asks the chat model to rewrite the answer.
RewriteStage_AskModel(st, allowed_ids, cite_tokens, min_unique, require) ==
    IF ~st.report.ok /\ st.report.invalid_ids # {}
    THEN Validated(st.answer, allowed_ids, min_unique, require, Append(st.trace, "chat"))
    ELSE st
\* "If still failing due to invalid IDs, try to fix them".
RewriteStage(st, allowed_ids, cite_tokens, min_unique, require) ==
    IF ~st.report.ok /\ st.report.invalid_ids # {}
    THEN Validated(IF allowed_ids # <<>>
                   THEN ReplaceInvalidLoop(st.answer, st.report.invalid_ids, cite_tokens[1])
                   ELSE st.answer,
                   allowed_ids, min_unique, require, Append(st.trace, "rewrite"))
    ELSE st

\* The filenames that hold a "]" (an upload keeps the name the client gave).
HoldsClosingBracket(filename) == filename \in {"r[1]"}

\* f"[Source: {c['filename']} | cid:{int(c['chunk_id'])}]".  _CID_SOURCE and
\* the rewrite pattern let no "]" stand between "[Source:" and "cid:".
DisplayToken(c) ==
    IF HoldsClosingBracket(c.filename) THEN ClosedTok(c.chunk_id) ELSE SourceTok(c.chunk_id)

\* answer_question from the fused list on: prompt, chat call, post-processing,
\* validation and repair.  fused is non-empty.
AssembleAnswer(fused, chat_output, min_unique, require) ==
    LET allowed_ids == [i \in 1..Len(fused) |-> fused[i].chunk_id]
        cite_tokens == [i \in 1..Len(fused) |-> DisplayToken(fused[i])]
        s1 == ChatStage(chat_output, allowed_ids, min_unique, require)
        s2 == InjectStage(s1, allowed_ids, cite_tokens, min_unique, require)
    IN  RewriteStage(s2, allowed_ids, cite_tokens, min_unique, require)

\* answer_question from the fused list on (lines 217-299): the refusal when
\* nothing was retrieved, the assembled answer otherwise.
RefusalText == <<Tok("refusal", 0)>>
\* An assembler that goes on to the chat model with an empty context.
GroundedAnswer_NeverRefuses(fused, chat_output, min_unique, require) ==
    AssembleAnswer(fused, chat_output, min_unique, require)
GroundedAnswer(fused, chat_output, min_unique, require) ==
    IF fused = <<>>
    THEN [answer |-> RefusalText,
          report |-> [ok |-> TRUE, reason |-> "no retrieved chunks"],
          trace  |-> <<>>]
    ELSE AssembleAnswer(fused, chat_output, min_unique, require)

\* The variables of the specifications that are not running.
FuseIdle ==
    /\ fuse_in = [L |-> <<>>, V |-> <<>>]
    /\ fuse_out = [done |-> FALSE]

CiteIdle ==
    /\ cite_in = [fused |-> <<>>, text |-> <<>>]
    /\ cite_out = [done |-> FALSE]

MatchIdle ==
    /\ match_in = [text |-> <<>>, mode |-> "heuristic", max_terms |-> 10]
    /\ match_out = [done |-> FALSE]

(***************************************************************************)
(* The installation: what the server and the CLI work on                   *)
(***************************************************************************)
MaxFiles == 2           \* most files in one upload
MaxVecs == 3            \* most vectors the index is let grow to
MaxMsgs == 2            \* most rows of chat_messages

\* Uploaded files: a filename and the SHA-256 digest of the bytes. "a.pdf"
\* and "c.pdf" hold the same bytes.
Uploads == {[filename |-> "a.pdf", sha256 |-> "X"],
            [filename |-> "b.txt", sha256 |-> "Y"],
            [filename |-> "c.pdf", sha256 |-> "X"]}
UploadLists == SeqsUpTo(Uploads, MaxFiles) \ {<<>>}
\* Uploads of one file, without the second copy of the bytes X.
SingleUploads == {<<u>> : u \in {v \in Uploads : v.filename # "c.pdf"}}
\* The upload of the one file "a.pdf".
OneUpload == {<<u>> : u \in {v \in Uploads : v.filename = "a.pdf"}}

\* chunk_text: how many chunks the text of a file splits into.
NumChunks(sha256) == IF sha256 = "X" THEN 2 ELSE 1

\* The terms the full-text index holds for the text of a file.
Terms(sha256) == IF sha256 = "X" THEN {"alpha"} ELSE {"beta"}

\* Embedding models known to the model server and the length of the vectors
\* each returns; chat models known to it.
EmbedModels == {"e2", "e3"}
EmbedDim(model) == IF model = "e2" THEN 2 ELSE 3
ChatModels == {"c1", "c2"}
DefaultEmbedModel == "e2"
DefaultChatModel == "c1"

\* The route modules that hold an embedder and an index manager, and those
\* that hold a chat model.
Routes == {"chat", "debug", "debug_citations", "ingest"}
LlmRoutes == {"chat", "debug_citations"}

Sessions == {"s1"}
Queries == {"alpha", "zzz"}

\* QueryRequest defaults.
Bm25K == 20
VecK == 20
QueryTopK == 8
DefaultWeight == 1
\* answer_question defaults.
MinUniqueCitations == 1
RequireCitationPerParagraph == TRUE

NoDim == 0
NoIndexFile == [exists |-> FALSE, d |-> NoDim, entries |-> <<>>]
NoModelConfig == [exists |-> FALSE, chat_model |-> None, embed_model |-> None]
\* A response names the route it answers, its status and its JSON body.  A
\* response to POST /ingest goes with dup_files, the names of the uploaded
\* files the request found already stored (history; no part of the body).
NoResponse == [to |-> "none", status |-> "none", body |-> [detail |-> "none"]]
ErrorResponse(to, detail) == [to |-> to, status |-> "error", body |-> [detail |-> detail]]

RECURSIVE SortedSeq(_)
SortedSeq(S) ==
    IF S = {} THEN <<>>
    ELSE LET lo == CHOOSE x \in S : \A y \in S : x <= y
         IN  <<lo>> \o SortedSeq(S \ {lo})

FirstK(s, k) == SubSeq(s, 1, Min(k, Len(s)))

(***************************************************************************)
(* src/rag/vectorstore.py: FaissIndexManager.  A manager is                *)
(* [loaded, dim, entries]: cpu_index is None when ~loaded, and entries are *)
(* the vectors of the IndexIDMap2 in insertion order, each with its id and *)
(* the text it embeds.  gpu_index is either None or a clone of cpu_index   *)
(* made at the end of load_or_create and add, so a search sees the same    *)
(* entries on either; the model keeps the one copy.                        *)
(***************************************************************************)
NewManager == [loaded |-> FALSE, dim |-> NoDim, entries |-> <<>>]

\* An open that always builds an empty index of the given dimension.
load_or_create_IgnoresFile(mgr, file, dim) ==
    [mgr  |-> [loaded |-> TRUE, dim |-> dim, entries |-> <<>>],
     file |-> [exists |-> TRUE, d |-> dim, entries |-> <<>>]]
load_or_create(mgr, file, dim) ==
    IF file.exists
    THEN [mgr  |-> [loaded |-> TRUE, dim |-> file.d, entries |-> file.entries],
          file |-> file]
    ELSE [mgr  |-> [loaded |-> TRUE, dim |-> dim, entries |-> <<>>],
          file |-> [exists |-> TRUE, d |-> dim, entries |-> <<>>]]

\* _save_cpu: write_index replaces the file by the manager's index.
_save_cpu(mgr) == [exists |-> TRUE, d |-> mgr.dim, entries |-> mgr.entries]

add_DropsLast(mgr, file, new_entries, vec_dim) ==
    IF vec_dim # mgr.dim
    THEN [raised |-> TRUE, mgr |-> mgr, file |-> file]
    ELSE LET m == [mgr EXCEPT !.entries = @ \o SubSeq(new_entries, 1, Len(new_entries) - 1)]
         IN  [raised |-> FALSE, mgr |-> m, file |-> _save_cpu(m)]
add(mgr, file, new_entries, vec_dim) ==
    IF vec_dim # mgr.dim
    THEN [raised |-> TRUE, mgr |-> mgr, file |-> file]
    ELSE LET m == [mgr EXCEPT !.entries = @ \o new_entries]
         IN  [raised |-> FALSE, mgr |-> m, file |-> _save_cpu(m)]

\* Inner-product search over every entry: the entries whose text holds the
\* query's term score highest, equal scores in insertion order.
Similar(query, entry) == query \in Terms(entry.sha256)
\* A search that takes a query of any width.
search_AnyWidth(mgr, query_dim, query, k) ==
    LET near == SelectSeq(mgr.entries, LAMBDA e : Similar(query, e))
        far  == SelectSeq(mgr.entries, LAMBDA e : ~Similar(query, e))
        hits == FirstK(near \o far, k)
    IN  [raised |-> FALSE, ids |-> [i \in 1..Len(hits) |-> hits[i].id]]
search(mgr, query_dim, query, k) ==
    IF query_dim # mgr.dim
    THEN [raised |-> TRUE, ids |-> <<>>]
    ELSE LET near == SelectSeq(mgr.entries, LAMBDA e : Similar(query, e))
             far  == SelectSeq(mgr.entries, LAMBDA e : ~Similar(query, e))
             hits == FirstK(near \o far, k)
         IN  [raised |-> FALSE, ids |-> [i \in 1..Len(hits) |-> hits[i].id]]

(***************************************************************************)
(* The relational store                                                    *)
(***************************************************************************)
ChunkSha(cid) == documents[chunks[cid].document_id].sha256
ChunkFilename(cid) == documents[chunks[cid].document_id].filename

\* The insert trigger of the chunks table: every inserted chunk gets a row
\* of the full-text table with the same rowid.
FtsAfterInsert(fts, chunk_ids) == fts \cup chunk_ids

\* src/rag/bm25_fts.py bm25_search: the rows of the full-text table that match,
\* joined to their chunk and document, best first, at most k.
bm25_search(user_query, k) ==
    LET matching == {cid \in chunks_fts : cid \in 1..Len(chunks) /\ user_query \in Terms(ChunkSha(cid))}
        rows == FirstK(SortedSeq(matching), k)
    IN  [i \in 1..Len(rows) |-> [chunk_id |-> rows[i], filename |-> ChunkFilename(rows[i])]]

\* src/rag/qa.py _fetch_chunks_by_ids and the loop that keeps the vector hits
\* the chunk table knows.
HydrateVectorHits(vec_ids) ==
    LET known == SelectSeq(vec_ids, LAMBDA cid : cid \in 1..Len(chunks))
    IN  [i \in 1..Len(known) |-> [chunk_id |-> known[i], filename |-> ChunkFilename(known[i])]]

\* app/rag/memory.py add_message.
Message(session_id, role, query, answer) ==
    [session_id |-> session_id, role |-> role, query |-> query, answer |-> answer]

\* A handler that logs no answer when it refuses.
LogAssistant_NotOnRefusal(log, session_id, query, answer) ==
    IF answer = RefusalText THEN log
    ELSE Append(log, Message(session_id, "assistant", query, answer))
\* "if store_memory: await add_message(db, session_id, "assistant", answer)",
\* on the refusal path and at the end of the normal path.
LogAssistant(log, session_id, query, answer) ==
    Append(log, Message(session_id, "assistant", query, answer))

\* The rows of chat_messages of one session, oldest first.
SessionLog(log, session_id) == SelectSeq(log, LAMBDA m : m.session_id = session_id)

\* A retrieval that takes every question after a session's first for small
\* talk and searches for nothing.
SearchText_WithMemory(query, history) ==
    IF Len(history) > 1 THEN "" ELSE query
\* The text answer_question hands to bm25_search and to embed_query: the
\* query of the request, whatever the session's history.
SearchText(query, history) == query

(***************************************************************************)
(* Init: a fresh installation with the server started.                     *)
(***************************************************************************)
IngestIdle ==
    [pc |-> "idle", files |-> <<>>, i |-> 0, embedder |-> None,
     pending_docs |-> <<>>, pending_chunks |-> <<>>, chunk_entries |-> <<>>,
     documents_added |-> 0, chunks_added |-> 0, vectors_added |-> 0, dup_files |-> <<>>]

QueryIdle ==
    [pc |-> "idle", session_id |-> None, query |-> None, embedder |-> None, llm |-> None,
     bm25_results |-> <<>>, vec_ids |-> <<>>, vec_results |-> <<>>, fused |-> <<>>,
     seen_db |-> <<>>, seen_index |-> <<>>]

\* Module import: every route module builds its own embedder, chat model and
\* index manager from the persisted configuration or the defaults.
get_initial_chat_model(config) ==
    IF config.exists /\ config.chat_model # None THEN config.chat_model ELSE DefaultChatModel
get_initial_embed_model(config) ==
    IF config.exists /\ config.embed_model # None THEN config.embed_model ELSE DefaultEmbedModel

StartedEmbedders(config) == [r \in Routes |-> get_initial_embed_model(config)]
StartedLlms(config) == [r \in LlmRoutes |-> get_initial_chat_model(config)]
StartedCurrent(config) == [chat_model |-> get_initial_chat_model(config),
                           embed_model |-> get_initial_embed_model(config)]
StartedManagers == [r \in Routes |-> NewManager]

ServerIdle ==
    /\ db_ready = TRUE
    /\ documents = <<>>
    /\ chunks = <<>>
    /\ chunks_fts = {}
    /\ chat_messages = <<>>
    /\ raw_dir = {}
    /\ index_file = NoIndexFile
    /\ model_config = NoModelConfig
    /\ embedder = StartedEmbedders(NoModelConfig)
    /\ llm = StartedLlms(NoModelConfig)
    /\ current = StartedCurrent(NoModelConfig)
    /\ faiss = StartedManagers
    /\ ing = IngestIdle
    /\ q = QueryIdle
    /\ resp = NoResponse
    /\ hist = [only_ingests |-> TRUE, restart_due |-> FALSE, answered |-> {}]

Init == FuseIdle /\ CiteIdle /\ MatchIdle /\ ServerIdle

(***************************************************************************)
(* POST /ingest: src/api/routes_ingest.py ingest, src/rag/ingest.py        *)
(* ingest_files.  One upload is in flight at a time; the handler's steps   *)
(* are the stretches between its awaits.                                   *)
(***************************************************************************)
\* The chunks an upload would add: those of its digests not stored yet.
RECURSIVE SumChunks(_)
SumChunks(digests) ==
    IF digests = {} THEN 0
    ELSE LET d == CHOOSE x \in digests : TRUE
         IN  NumChunks(d) + SumChunks(digests \ {d})
NewChunks(files) ==
    SumChunks({files[i].sha256 : i \in 1..Len(files)}
                 \ {documents[i].sha256 : i \in 1..Len(documents)})

IndexSize == IF Len(index_file.entries) >= Len(faiss["ingest"].entries)
             THEN Len(index_file.entries) ELSE Len(faiss["ingest"].entries)

IngestFails(detail) ==
    /\ ing' = IngestIdle
    /\ resp' = [to |-> "ingest", status |-> "error", body |-> [detail |-> detail],
                dup_files |-> ing.dup_files]
    /\ hist' = [hist EXCEPT !.only_ingests = FALSE]

\* The request arrives: the handler reads the module's _embedder and _faiss.
IngestReceive(lists) ==
    /\ ing.pc = "idle"
    /\ ~hist.restart_due
    /\ \E files \in lists :
         /\ IndexSize + NewChunks(files) <= MaxVecs
         /\ ing' = [IngestIdle EXCEPT !.pc = "file", !.files = files, !.i = 1,
                                      !.embedder = embedder["ingest"]]
    /\ resp' = NoResponse
    /\ UNCHANGED <<fuseVars, citeVars, matchVars, dbVars, fileVars, procVars, q, hist>>

\* "SELECT id FROM documents WHERE sha256 = ?" found a row.
IsStored_Never(docs, digest) == FALSE
IsStored(docs, digest) == \E i \in 1..Len(docs) : docs[i].sha256 = digest

\* Lines 46-80 for the next file: digest, dedupe, raw blob, the document row
\* and the chunk rows, not yet committed.
IngestStageFile ==
    /\ ing.pc = "file"
    /\ ing.i <= Len(ing.files)
    /\ LET f == ing.files[ing.i]
           doc_id == Len(documents) + 1
           n == NumChunks(f.sha256)
       IN  IF ~db_ready
           THEN /\ IngestFails("no such table: documents")
                /\ UNCHANGED raw_dir
           ELSE IF IsStored(documents, f.sha256)
           THEN /\ ing' = [ing EXCEPT !.i = @ + 1, !.dup_files = Append(@, f.filename)]
                /\ resp' = NoResponse
                /\ UNCHANGED <<raw_dir, hist>>
           ELSE /\ raw_dir' = raw_dir \cup {<<f.sha256, f.filename>>}
                /\ ing' = [ing EXCEPT
                             !.pc = "commit",
                             !.pending_docs = <<[filename |-> f.filename, sha256 |-> f.sha256]>>,
                             !.pending_chunks = [k \in 1..n |-> [document_id |-> doc_id,
                                                                 chunk_index |-> k - 1]],
                             !.chunk_entries = [k \in 1..n |-> [id |-> Len(chunks) + k,
                                                                sha256 |-> f.sha256]]]
                /\ resp' = NoResponse
                /\ UNCHANGED hist
    /\ UNCHANGED <<fuseVars, citeVars, matchVars, dbVars, index_file, model_config, procVars, q>>

\* db.commit(): the rows the transaction inserted join the committed rows,
\* which are what the other connections read.
Commit_FirstRowOnly(committed, inserted) == committed \o SubSeq(inserted, 1, 1)
Commit(committed, inserted) == committed \o inserted

\* Line 82: await db.commit().
IngestCommit ==
    /\ ing.pc = "commit"
    /\ documents' = Commit(documents, ing.pending_docs)
    /\ chunks' = Commit(chunks, ing.pending_chunks)
    /\ chunks_fts' = FtsAfterInsert(chunks_fts, {ing.chunk_entries[k].id : k \in 1..Len(ing.chunk_entries)})
    /\ ing' = [ing EXCEPT !.pc = "embed", !.pending_docs = <<>>]
    /\ resp' = NoResponse
    /\ UNCHANGED <<fuseVars, citeVars, matchVars, db_ready, chat_messages, fileVars, procVars, q, hist>>

\* Lines 85-95: embed the chunk texts, open the index if the manager has no
\* dimension yet, add the vectors, count.
IngestEmbedAdd ==
    /\ ing.pc = "embed"
    /\ \E reachable \in BOOLEAN :
         IF ~reachable
         THEN /\ IngestFails("embedding service error")
              /\ UNCHANGED <<faiss, index_file>>
         ELSE LET dim == EmbedDim(ing.embedder)
                  opened == IF faiss["ingest"].dim = NoDim
                            THEN load_or_create(faiss["ingest"], index_file, dim)
                            ELSE [mgr |-> faiss["ingest"], file |-> index_file]
                  added == add(opened.mgr, opened.file, ing.chunk_entries, dim)
              IN  /\ faiss' = [faiss EXCEPT !["ingest"] = added.mgr]
                  /\ index_file' = added.file
                  /\ IF added.raised
                     THEN IngestFails("vectors shape must be (n, dim)")
                     ELSE /\ ing' = [ing EXCEPT
                                       !.pc = "file", !.i = @ + 1,
                                       !.pending_chunks = <<>>, !.chunk_entries = <<>>,
                                       !.documents_added = @ + 1,
                                       !.chunks_added = @ + Len(ing.pending_chunks),
                                       !.vectors_added = @ + Len(ing.chunk_entries)]
                          /\ resp' = NoResponse
                          /\ UNCHANGED hist
    /\ UNCHANGED <<fuseVars, citeVars, matchVars, dbVars, raw_dir, model_config, embedder, llm, current, q>>

\* Line 97 and routes_ingest.py line 33: the summary.
IngestReturn ==
    /\ ing.pc = "file"
    /\ ing.i > Len(ing.files)
    /\ resp' = [to |-> "ingest", status |-> "ok",
                body |-> [received |-> [k \in 1..Len(ing.files) |-> ing.files[k].filename],
                          documents_added |-> ing.documents_added,
                          chunks_added |-> ing.chunks_added,
                          vectors_added |-> ing.vectors_added],
                dup_files |-> ing.dup_files]
    /\ ing' = IngestIdle
    /\ UNCHANGED <<fuseVars, citeVars, matchVars, dbVars, fileVars, procVars, q, hist>>

(***************************************************************************)
(* POST /query: src/api/routes_chat.py query, src/rag/qa.py answer_question *)
(***************************************************************************)
QueryFails(detail) ==
    /\ q' = QueryIdle
    /\ resp' = ErrorResponse("query", detail)

\* Lines 183-194: log the user's message, lexical search.  seen_db and
\* seen_index record what the two searches of the turn read (history).
QueryReceive(queries, sessions, max_msgs) ==
    /\ q.pc = "idle"
    /\ ~hist.restart_due
    /\ Len(chat_messages) + 2 <= max_msgs
    /\ \E session_id \in sessions, query \in queries :
         IF ~db_ready
         THEN /\ QueryFails("no such table: chat_messages")
              /\ UNCHANGED chat_messages
         ELSE /\ chat_messages' = Append(chat_messages, Message(session_id, "user", query, <<>>))
              /\ q' = [QueryIdle EXCEPT
                         !.pc = "vector", !.session_id = session_id,
                         !.query = query, !.embedder = embedder["chat"],
                         !.llm = llm["chat"],
                         !.bm25_results =
                             bm25_search(SearchText(query, SessionLog(chat_messages', session_id)),
                                         Bm25K),
                         !.seen_db = <<documents, chunks, chunks_fts>>]
              /\ resp' = NoResponse
    /\ UNCHANGED <<fuseVars, citeVars, matchVars, db_ready, documents, chunks, chunks_fts, fileVars,
                   procVars, ing, hist>>

\* Lines 196-200: embed the query, open the index if the manager holds none,
\* search.  search raises on a dimension mismatch and nothing catches it.
QueryVector ==
    /\ q.pc = "vector"
    /\ LET dim == EmbedDim(q.embedder)
           opened == IF ~faiss["chat"].loaded
                     THEN load_or_create(faiss["chat"], index_file, dim)
                     ELSE [mgr |-> faiss["chat"], file |-> index_file]
           text == SearchText(q.query, SessionLog(chat_messages, q.session_id))
           vec == search(opened.mgr, dim, text, VecK)
       IN  /\ faiss' = [faiss EXCEPT !["chat"] = opened.mgr]
           /\ index_file' = opened.file
           /\ IF vec.raised
              THEN QueryFails("query_vector dim must be the index dimension")
              ELSE /\ q' = [q EXCEPT !.pc = "fuse", !.vec_ids = vec.ids,
                                     !.seen_index = opened.mgr.entries]
                   /\ resp' = NoResponse
    /\ UNCHANGED <<fuseVars, citeVars, matchVars, dbVars, raw_dir, model_config, embedder, llm, current,
                   ing, hist>>

\* The sources of the response: one per fused chunk, in fused order.
Sources(fused) ==
    [i \in 1..Len(fused) |-> [chunk_id |-> fused[i].chunk_id,
                              filename |-> fused[i].filename,
                              fused_score |-> fused[i].fused_score]]

\* What a turn read and what it returned; hist.answered collects them for
\* the specifications that compare turns (keep_turns).
Answered(turn, sources) ==
    [query |-> turn.query, seen_db |-> turn.seen_db, seen_index |-> turn.seen_index,
     sources |-> sources]
HistoryAfter(keep_turns, turn, sources) ==
    IF keep_turns THEN [hist EXCEPT !.answered = @ \cup {Answered(turn, sources)}] ELSE hist

\* Lines 202-231: hydrate the vector hits, fuse, and refuse when nothing was
\* retrieved.  The response goes with the hits of the two searches (history;
\* no part of the body).
QueryFuse(keep_turns) ==
    /\ q.pc = "fuse"
    /\ LET vec_results == HydrateVectorHits(q.vec_ids)
           fused == rrf_fuse(q.bm25_results, vec_results,
                             DefaultRrfK, DefaultWeight, DefaultWeight, QueryTopK)
       IN  IF fused = <<>>
           THEN LET r == GroundedAnswer(fused, <<>>, MinUniqueCitations, RequireCitationPerParagraph)
                IN  /\ chat_messages' = LogAssistant(chat_messages, q.session_id, q.query, r.answer)
                    /\ resp' = [to |-> "query", status |-> "ok",
                                body |-> [answer |-> r.answer, sources |-> Sources(fused),
                                          citation_ok |-> r.report.ok, chat_calls |-> 0],
                                hits |-> [bm25_results |-> q.bm25_results,
                                          vec_results |-> vec_results]]
                    /\ hist' = HistoryAfter(keep_turns, q, Sources(fused))
                    /\ q' = QueryIdle
           ELSE /\ q' = [q EXCEPT !.pc = "chat", !.fused = fused, !.vec_results = vec_results]
                /\ resp' = NoResponse
                /\ UNCHANGED <<chat_messages, hist>>
    /\ UNCHANGED <<fuseVars, citeVars, matchVars, db_ready, documents, chunks, chunks_fts, fileVars,
                   procVars, ing>>

\* What the chat model may return for a prompt: a cited answer, an uncited
\* one, one citing an id outside the prompt, one with a preamble.
ChatOutputs(fused) ==
    {<<W, SourceTok(fused[1].chunk_id)>>, <<W>>, <<W, CidTok(999)>>, <<PRE, W, SourceTok(999)>>}

\* Lines 233-324: prompt, chat call, post-processing, validation, repair,
\* log the answer, respond.
QueryChat(keep_turns) ==
    /\ q.pc = "chat"
    /\ \E chat_output \in ChatOutputs(q.fused) :
         LET r == GroundedAnswer(q.fused, chat_output, MinUniqueCitations,
                                 RequireCitationPerParagraph)
         IN  /\ chat_messages' = LogAssistant(chat_messages, q.session_id, q.query, r.answer)
             /\ resp' = [to |-> "query", status |-> "ok",
                         body |-> [answer |-> r.answer,
                                   sources |-> Sources(q.fused),
                                   citation_ok |-> r.report.ok,
                                   chat_calls |-> Cardinality({i \in 1..Len(r.trace) : r.trace[i] = "chat"})],
                         hits |-> [bm25_results |-> q.bm25_results,
                                   vec_results |-> q.vec_results]]
    /\ hist' = HistoryAfter(keep_turns, q, Sources(q.fused))
    /\ q' = QueryIdle
    /\ UNCHANGED <<fuseVars, citeVars, matchVars, db_ready, documents, chunks, chunks_fts, fileVars,
                   procVars, ing>>

(***************************************************************************)
(* POST /models: src/api/routes_models.py update_models.  The handler has  *)
(* no await: it runs as one step.                                          *)
(***************************************************************************)
ModelRequests ==
    {[chat_model |-> None, embed_model |-> "e3"],
     [chat_model |-> None, embed_model |-> "e2"],
     [chat_model |-> None, embed_model |-> "missing"]}
\* Every request over the known names and one unknown name.  An empty or
\* absent field is None: the handler tests `if req.chat_model:`.
AllModelRequests ==
    [chat_model : {None, "missing"} \cup ChatModels,
     embed_model : {None, "missing"} \cup EmbedModels]

_save_persistent_config(config, chat_model, embed_model) ==
    [exists |-> TRUE,
     chat_model |-> IF chat_model # None THEN chat_model
                    ELSE get_initial_chat_model(config),
     embed_model |-> IF embed_model # None THEN embed_model
                     ELSE get_initial_embed_model(config)]

\* The probe call of a model: "missing" is unknown to the model server; a
\* known model answers or fails for another reason.
ProbeOutcomes(model, known) ==
    IF model \in known THEN {"ok", "error"} ELSE {"not found"}

\* old_faiss_dim: the dimension of the ingest route's manager, read from the
\* index file when the manager holds none.
OldFaissDim(mgr, file) ==
    IF mgr.dim # NoDim THEN mgr.dim
    ELSE IF file.exists THEN file.d ELSE NoDim

\* A handler that never warns.
DimensionWarning_Never(old_faiss_dim, new_dim) == FALSE
\* "if old_faiss_dim is not None and old_faiss_dim != new_dim".
DimensionWarning(old_faiss_dim, new_dim) ==
    old_faiss_dim # NoDim /\ old_faiss_dim # new_dim

\* A handler that keeps a chat model only when its probe answered.
ChatProbeAccepted_OnlyOnAnswer(chat_probe) == chat_probe = "ok"
\* The probe of the chat model: "not found" / "does not exist" raises
\* ValueError, any other failure is passed over ("continue anyway").
ChatProbeAccepted(chat_probe) == chat_probe # "not found"

\* A handler that leaves the ingest route on its old embedder.
SwapEmbedders_NotIngest(holders, new_embedder) ==
    [r \in Routes |-> IF r = "ingest" THEN holders[r] ELSE new_embedder]
\* Lines 217-220 and 188-189: the module-level references are assigned one
\* after the other, with no await between them.
SwapEmbedders(holders, new_embedder) == [r \in Routes |-> new_embedder]
SwapLlms(holders, new_llm) == [r \in LlmRoutes |-> new_llm]

\* The response goes with the request and the outcomes of the two probes
\* (history; no part of the body).
update_models(requests) ==
    /\ ~hist.restart_due
    /\ \E req \in requests :
       \E chat_probe \in ProbeOutcomes(req.chat_model, ChatModels),
          embed_probe \in ProbeOutcomes(req.embed_model, EmbedModels) :
          LET chat_asked == req.chat_model # None
              embed_asked == req.embed_model # None
              chat_set == chat_asked /\ ChatProbeAccepted(chat_probe)
              embed_set == embed_asked /\ embed_probe = "ok"
              errors == {k \in {"chat_model", "embed_model"} :
                           \/ k = "chat_model" /\ chat_asked /\ ~chat_set
                           \/ k = "embed_model" /\ embed_asked /\ ~embed_set}
              changes == {k \in {"chat_model", "embed_model"} :
                            \/ k = "chat_model" /\ chat_set
                            \/ k = "embed_model" /\ embed_set}
              new_dim == IF embed_set THEN EmbedDim(req.embed_model) ELSE NoDim
              old_faiss_dim == OldFaissDim(faiss["ingest"], index_file)
              dimension_warning == embed_set /\ DimensionWarning(old_faiss_dim, new_dim)
              chat_now == IF chat_set THEN req.chat_model ELSE current.chat_model
              embed_now == IF embed_set THEN req.embed_model ELSE current.embed_model
          IN  /\ llm' = IF chat_set THEN SwapLlms(llm, req.chat_model) ELSE llm
              /\ embedder' = IF embed_set THEN SwapEmbedders(embedder, req.embed_model) ELSE embedder
              /\ current' = [chat_model |-> chat_now, embed_model |-> embed_now]
              /\ model_config' =
                   IF errors = {} /\ changes # {}
                   THEN _save_persistent_config(model_config,
                                                IF chat_set THEN chat_now ELSE None,
                                                IF embed_set THEN embed_now ELSE None)
                   ELSE model_config
              /\ resp' =
                   [to |-> "models", status |-> IF errors = {} THEN "ok" ELSE "error",
                    body |-> [errors |-> errors, changes |-> changes,
                              dimension_warning |-> dimension_warning,
                              new_dimension |-> new_dim, faiss_dimension |-> old_faiss_dim],
                    request |-> req,
                    probes |-> [chat_model |-> chat_probe, embed_model |-> embed_probe]]
              /\ hist' = [hist EXCEPT !.only_ingests = FALSE]
              /\ UNCHANGED <<fuseVars, citeVars, matchVars, dbVars, raw_dir, index_file, faiss, ing, q>>

(***************************************************************************)
(* cli/commands/reset.py ResetCommand.execute, run while no request is in  *)
(* flight, and the restart of the server process (src/main.py lifespan).   *)
(***************************************************************************)
Reset ==
    /\ ing.pc = "idle"
    /\ q.pc = "idle"
    /\ \E db_only \in BOOLEAN, index_only \in BOOLEAN, keep_raw \in BOOLEAN :
         LET delete_db == ~index_only
             delete_index == ~db_only
             delete_raw == ~keep_raw /\ ~db_only /\ ~index_only
         IN  /\ IF delete_db
                THEN /\ db_ready' = FALSE
                     /\ documents' = <<>>
                     /\ chunks' = <<>>
                     /\ chunks_fts' = {}
                     /\ chat_messages' = <<>>
                ELSE UNCHANGED dbVars
             /\ index_file' = IF delete_index THEN NoIndexFile ELSE index_file
             /\ raw_dir' = IF delete_raw THEN {} ELSE raw_dir
    /\ resp' = NoResponse
    /\ hist' = [hist EXCEPT !.only_ingests = FALSE, !.restart_due = TRUE]
    /\ UNCHANGED <<fuseVars, citeVars, matchVars, model_config, procVars, ing, q>>

\* The process stops and starts: requests in flight are lost with their
\* uncommitted rows, the modules are imported anew, init_db runs the schema.
Restart ==
    /\ db_ready' = TRUE
    /\ embedder' = StartedEmbedders(model_config)
    /\ llm' = StartedLlms(model_config)
    /\ current' = StartedCurrent(model_config)
    /\ faiss' = StartedManagers
    /\ ing' = IngestIdle
    /\ q' = QueryIdle
    /\ resp' = NoResponse
    /\ hist' = [hist EXCEPT !.only_ingests = hist.only_ingests /\ ing.pc = "idle",
                             !.restart_due = FALSE]
    /\ UNCHANGED <<fuseVars, citeVars, matchVars, documents, chunks, chunks_fts, chat_messages, fileVars>>

(***************************************************************************)
(* SpecIngest: uploads and questions served concurrently on a fresh        *)
(* installation.                                                           *)
(***************************************************************************)
NextIngest ==
    \/ IngestReceive(UploadLists)
    \/ IngestStageFile
    \/ IngestCommit
    \/ IngestEmbedAdd
    \/ IngestReturn
    \/ QueryReceive(Queries, Sessions, MaxMsgs)
    \/ QueryVector
    \/ QueryFuse(FALSE)
    \/ QueryChat(FALSE)

SpecIngest == Init /\ [][NextIngest]_vars

(***************************************************************************)
(* Spec: the server with its administration: model changes, resets and     *)
(* restarts.  Uploads carry one file and questions ask for the one term.   *)
(***************************************************************************)
Next ==
    \/ IngestReceive(SingleUploads)
    \/ IngestStageFile
    \/ IngestCommit
    \/ IngestEmbedAdd
    \/ IngestReturn
    \/ QueryReceive({"alpha"}, Sessions, MaxMsgs)
    \/ QueryVector
    \/ QueryFuse(FALSE)
    \/ QueryChat(FALSE)
    \/ update_models(ModelRequests)
    \/ Reset
    \/ Restart

Spec == Init /\ [][Next]_vars

(***************************************************************************)
(* SpecModels: model changes of every shape, with uploads and restarts.    *)
(***************************************************************************)
NextModels ==
    \/ IngestReceive(OneUpload)
    \/ IngestStageFile
    \/ IngestCommit
    \/ IngestEmbedAdd
    \/ IngestReturn
    \/ update_models(AllModelRequests)
    \/ Restart

SpecModels == Init /\ [][NextModels]_vars

(***************************************************************************)
(* SpecChat: several turns of two sessions, with the upload of one file.   *)
(***************************************************************************)
MaxTurns == 2           \* most turns served
TwoSessions == {"s1", "s2"}

NextChat ==
    \/ IngestReceive(OneUpload)
    \/ IngestStageFile
    \/ IngestCommit
    \/ IngestEmbedAdd
    \/ IngestReturn
    \/ QueryReceive(Queries, TwoSessions, 2 * MaxTurns)
    \/ QueryVector
    \/ QueryFuse(TRUE)
    \/ QueryChat(TRUE)

SpecChat == Init /\ [][NextChat]_vars

(***************************************************************************)
(* SpecIndex: FaissIndexManager driven directly, as the routes and the     *)
(* tests drive it.  The ingest route's manager is the one that adds; the   *)
(* other managers open the same directory and search.  A response names    *)
(* the call made (op), its manager and the width of its vectors (history). *)
(***************************************************************************)
MaxWidth == 3           \* widest vector handed to add and search
Widths == 1..MaxWidth
OpenDims == {EmbedDim(m) : m \in EmbedModels}
Digests == {u.sha256 : u \in Uploads}
\* The managers driven: the one that adds and one that only reads.
Managers == {"ingest", "chat"}

\* load_or_create(dim) on a manager, whether or not it holds an index.
CallLoadOrCreate ==
    /\ \E r \in Managers, dim \in OpenDims :
         LET opened == load_or_create(faiss[r], index_file, dim)
         IN  /\ faiss' = [faiss EXCEPT ![r] = opened.mgr]
             /\ index_file' = opened.file
             /\ resp' = [to |-> "index", status |-> "ok", body |-> [dim |-> opened.mgr.dim],
                         op |-> "load_or_create", manager |-> r, width |-> dim]
    /\ UNCHANGED <<fuseVars, citeVars, matchVars, dbVars, raw_dir, model_config, embedder, llm, current,
                   ing, q, hist>>

\* add(ids, vectors) on the ingest route's manager, with fresh ids.
CallAdd ==
    /\ faiss["ingest"].loaded
    /\ \E n \in 1..2, width \in Widths, digest \in Digests :
         /\ IndexSize + n <= MaxVecs
         /\ LET new_entries == [k \in 1..n |-> [id |-> IndexSize + k, sha256 |-> digest]]
                added == add(faiss["ingest"], index_file, new_entries, width)
            IN  /\ faiss' = [faiss EXCEPT !["ingest"] = added.mgr]
                /\ index_file' = added.file
                /\ resp' = [to |-> "index",
                            status |-> IF added.raised THEN "error" ELSE "ok",
                            body |-> [ntotal |-> Len(added.mgr.entries)],
                            op |-> "add", manager |-> "ingest", width |-> width,
                            new_entries |-> new_entries]
    /\ UNCHANGED <<fuseVars, citeVars, matchVars, dbVars, raw_dir, model_config, embedder, llm, current,
                   ing, q, hist>>

\* search(query_vector, k) on a manager that holds an index.
CallSearch ==
    /\ \E r \in Managers, width \in Widths, query \in Queries :
         /\ faiss[r].loaded
         /\ LET found == search(faiss[r], width, query, VecK)
            IN  resp' = [to |-> "index",
                         status |-> IF found.raised THEN "error" ELSE "ok",
                         body |-> [ids |-> found.ids],
                         op |-> "search", manager |-> r, width |-> width]
    /\ UNCHANGED <<fuseVars, citeVars, matchVars, dbVars, fileVars, procVars, ing, q, hist>>

\* The process that holds a manager ends (a crash or a restart): a new
\* manager takes its place, holding nothing.
DropManager ==
    /\ \E r \in Managers :
         /\ faiss[r].loaded
         /\ faiss' = [faiss EXCEPT ![r] = NewManager]
    /\ resp' = NoResponse
    /\ UNCHANGED <<fuseVars, citeVars, matchVars, dbVars, fileVars, embedder, llm, current, ing, q, hist>>

NextIndex ==
    \/ CallLoadOrCreate
    \/ CallAdd
    \/ CallSearch
    \/ DropManager

SpecIndex == Init /\ [][NextIndex]_vars

(***************************************************************************)
(* SpecFuse: rrf_fuse on every pair of rankings within the bounds.         *)
(***************************************************************************)
MaxRank == 3            \* longest ranking drawn
MaxTopK == 2            \* top_k is drawn from 0..MaxTopK and the default
FuseIds == {1, 2, 3, 4}
RrfKs == {1, DefaultRrfK}
Weights == {1, 2}
TopKs == (0..MaxTopK) \cup {DefaultTopK}

Rankings == InjSeqs(FuseIds, MaxRank)
AsResults(ranking) == [i \in 1..Len(ranking) |-> [chunk_id |-> ranking[i], filename |-> "f"]]

InitFuse ==
    /\ fuse_in \in [L : Rankings, V : Rankings]
    /\ fuse_out = [done |-> FALSE]
    /\ CiteIdle
    /\ MatchIdle
    /\ ServerIdle

Fuse ==
    /\ ~fuse_out.done
    /\ \E rrf_k \in RrfKs, w_bm25 \in Weights, w_vec \in Weights, top_k \in TopKs :
         fuse_out' = [done |-> TRUE, rrf_k |-> rrf_k, w_bm25 |-> w_bm25, w_vec |-> w_vec, top_k |-> top_k,
                      result |-> rrf_fuse(AsResults(fuse_in.L), AsResults(fuse_in.V),
                                          rrf_k, w_bm25, w_vec, top_k),
                      all |-> rrf_fuse(AsResults(fuse_in.L), AsResults(fuse_in.V),
                                       rrf_k, w_bm25, w_vec, Len(fuse_in.L) + Len(fuse_in.V))]
    /\ UNCHANGED <<fuse_in, citeVars, matchVars, serverVars>>

NextFuse == Fuse

SpecFuse == InitFuse /\ [][NextFuse]_vars

(***************************************************************************)
(* SpecCite: the assembler's pipeline on every chat output within bounds.  *)
(***************************************************************************)
MaxText == 3            \* longest chat output drawn, in tokens
TextIds == {7, 77}
TextAlphabet == {W, PRE, PB, REFS} \cup {CidTok(n) : n \in TextIds}
                    \cup {SourceTok(n) : n \in TextIds}
FusedChoices == {<<>>,
                 <<[chunk_id |-> 77, filename |-> "a"]>>,
                 <<[chunk_id |-> 8, filename |-> "a"], [chunk_id |-> 77, filename |-> "b"]>>,
                 <<[chunk_id |-> 8, filename |-> "r[1]"], [chunk_id |-> 77, filename |-> "b"]>>}
MinUniques == {0, 1, 2}

InitCite ==
    /\ cite_in \in [fused : FusedChoices, text : SeqsUpTo(TextAlphabet, MaxText)]
    /\ cite_out = [done |-> FALSE]
    /\ FuseIdle
    /\ MatchIdle
    /\ ServerIdle

Assemble ==
    /\ ~cite_out.done
    /\ \E min_unique \in MinUniques, require \in BOOLEAN :
         LET r == GroundedAnswer(cite_in.fused, cite_in.text, min_unique, require)
             allowed_ids == [i \in 1..Len(cite_in.fused) |-> cite_in.fused[i].chunk_id]
             cite_tokens == [i \in 1..Len(cite_in.fused) |-> DisplayToken(cite_in.fused[i])]
             c == IF cite_in.fused = <<>> THEN r
                  ELSE ChatStage(cite_in.text, allowed_ids, min_unique, require)
             s == IF cite_in.fused = <<>> THEN r
                  ELSE InjectStage(c, allowed_ids, cite_tokens, min_unique, require)
         IN  cite_out' = [done |-> TRUE, min_unique |-> min_unique, require |-> require,
                          cleaned |-> c.answer, first_report |-> c.report,
                          injected |-> s.answer, second_report |-> s.report,
                          answer |-> r.answer, citation_ok |-> r.report.ok,
                          citation_report |-> r.report, trace |-> r.trace]
    /\ UNCHANGED <<cite_in, fuseVars, matchVars, serverVars>>

NextCite == Assemble

SpecCite == InitCite /\ [][NextCite]_vars

(***************************************************************************)
(* src/rag/bm25_fts.py: make_bm25_query.  A string is a sequence of code   *)
(* points; a code point is named by one character, or by its number where  *)
(* it is not ASCII: U+0130 is LATIN CAPITAL LETTER I WITH DOT ABOVE and    *)
(* U+0307 is COMBINING DOT ABOVE.                                          *)
(***************************************************************************)
Space == " "
CapitalIDot == "U+0130"
CombiningDot == "U+0307"

\* str.lower() of one code point.  U+0130 lowers to two code points.
LowerOf(c) ==
    CASE c = "A" -> <<"a">>
      [] c = "D" -> <<"d">>
      [] c = CapitalIDot -> <<"i", CombiningDot>>
      [] OTHER -> <<c>>

\* \w of _WORD_RE: letters, digits and the underscore.  A combining mark
\* (category Mn) is none of them.
IsWordChar(c) == c \notin {Space, CombiningDot}

RECURSIVE Lower(_)
Lower(t) == IF t = <<>> THEN <<>> ELSE LowerOf(Head(t)) \o Lower(Tail(t))

\* _WORD_RE.findall(s): the maximal runs of word characters, left to right.
RECURSIVE FindAllLoop(_, _, _, _)
FindAllLoop(s, i, run, found) ==
    IF i > Len(s)
    THEN IF run = <<>> THEN found ELSE Append(found, run)
    ELSE IF IsWordChar(s[i])
         THEN FindAllLoop(s, i + 1, Append(run, s[i]), found)
         ELSE FindAllLoop(s, i + 1, <<>>, IF run = <<>> THEN found ELSE Append(found, run))

FindAll(s) == FindAllLoop(s, 1, <<>>, <<>>)

\* " ".join(tokens)
RECURSIVE JoinTokens(_)
JoinTokens(tokens) ==
    IF tokens = <<>> THEN <<>>
    ELSE IF Len(tokens) = 1 THEN tokens[1]
    ELSE tokens[1] \o <<Space>> \o JoinTokens(Tail(tokens))

\* str.strip()
RECURSIVE StripSpaces(_)
StripSpaces(s) ==
    IF s = <<>> THEN s
    ELSE IF Head(s) = Space THEN StripSpaces(Tail(s))
    ELSE IF s[Len(s)] = Space THEN StripSpaces(SubSeq(s, 1, Len(s) - 1))
    ELSE s

\* The members of _STOPWORDS that the letters a, d, i, n spell.
_STOPWORDS == {<<"a">>, <<"a", "n">>, <<"a", "n", "d">>, <<"i">>, <<"i", "n">>}

MinTokenLen == 3

\* The loop over tokens: seen holds what kept holds, so one sequence is kept.
\* The test of max_terms follows the append.
KeepsGoing(kept, max_terms) == ~(Len(kept) >= max_terms)

RECURSIVE KeptLoop(_, _, _, _)
KeptLoop(tokens, i, kept, max_terms) ==
    IF i > Len(tokens) THEN kept
    ELSE LET t == tokens[i]
         IN  IF Len(t) < MinTokenLen \/ t \in _STOPWORDS \/ t \in Range(kept)
             THEN KeptLoop(tokens, i + 1, kept, max_terms)
             ELSE IF KeepsGoing(Append(kept, t), max_terms)
                  THEN KeptLoop(tokens, i + 1, Append(kept, t), max_terms)
                  ELSE Append(kept, t)

make_bm25_query(user_query, mode, max_terms) ==
    LET found == FindAll(user_query)
        tokens == [i \in 1..Len(found) |-> Lower(found[i])]
    IN  IF mode = "raw"
        THEN StripSpaces(JoinTokens(tokens))
        ELSE StripSpaces(JoinTokens(KeptLoop(tokens, 1, <<>>, max_terms)))

(***************************************************************************)
(* SpecMatch: make_bm25_query on every text of up to MaxWords words, and   *)
(* on its own output.                                                      *)
(***************************************************************************)
MaxWords == 3           \* most words in a drawn text
MaxTerms == 2           \* max_terms is drawn from 0..MaxTerms and the default
DefaultMaxTerms == 10
QueryWords == {<<"a">>, <<"a", "n", "d">>, <<"A", "n", "d">>, <<"d", "a", "n">>, <<"D", "a", "n">>, <<"n", "a", "d">>, <<CapitalIDot, "d">>}
QueryTexts == {JoinTokens(ws) : ws \in SeqsUpTo(QueryWords, MaxWords)}
Bm25Modes == {"raw", "heuristic"}
MaxTermsValues == (0..MaxTerms) \cup {DefaultMaxTerms}

InitMatch ==
    /\ match_in \in [text : QueryTexts, mode : Bm25Modes, max_terms : MaxTermsValues]
    /\ match_out = [done |-> FALSE]
    /\ FuseIdle
    /\ CiteIdle
    /\ ServerIdle

Match ==
    /\ ~match_out.done
    /\ LET once == make_bm25_query(match_in.text, match_in.mode, match_in.max_terms)
       IN  match_out' = [done |-> TRUE, once |-> once,
                         twice |-> make_bm25_query(once, match_in.mode, match_in.max_terms)]
    /\ UNCHANGED <<match_in, fuseVars, citeVars, serverVars>>

NextMatch == Match

SpecMatch == InitMatch /\ [][NextMatch]_vars

(***************************************************************************)
(* Claims about make_bm25_query (checked under SpecMatch)                  *)
(***************************************************************************)
\* C22: make_bm25_query is idempotent: for every text, both modes and every
\* max_terms, make_bm25_query of its own output is that output.
C22_MatchIdempotent ==
    match_out.done => match_out.twice = match_out.once

\* The words of a string that joins words with single spaces.
RECURSIVE SplitOnSpace(_, _, _)
SplitOnSpace(s, run, found) ==
    IF s = <<>> THEN (IF run = <<>> THEN found ELSE Append(found, run))
    ELSE IF Head(s) = Space
         THEN SplitOnSpace(Tail(s), <<>>, IF run = <<>> THEN found ELSE Append(found, run))
         ELSE SplitOnSpace(Tail(s), Append(run, Head(s)), found)

\* The lower-cased words of the text that are long enough and no stopword,
\* each once, in the order of their first occurrence.
RECURSIVE Survivors(_, _)
Survivors(tokens, sofar) ==
    IF tokens = <<>> THEN sofar
    ELSE LET t == Lower(Head(tokens))
         IN  Survivors(Tail(tokens),
                       IF Len(t) >= MinTokenLen /\ t \notin _STOPWORDS /\ t \notin Range(sofar)
                       THEN Append(sofar, t) ELSE sofar)

\* C26: in heuristic mode the output of make_bm25_query holds no token of
\* fewer than 3 characters, no stopword and no token twice, keeps the
\* surviving tokens in first-occurrence order, and holds at most max_terms
\* tokens.
C26_HeuristicOutput ==
    (match_out.done /\ match_in.mode = "heuristic") =>
        LET out == SplitOnSpace(match_out.once, <<>>, <<>>)
            all == Survivors(FindAll(match_in.text), <<>>)
        IN  /\ \A i \in 1..Len(out) : Len(out[i]) >= MinTokenLen /\ out[i] \notin _STOPWORDS
            /\ \A i, j \in 1..Len(out) : i < j => out[i] # out[j]
            /\ Len(out) <= Len(all) /\ out = SubSeq(all, 1, Len(out))
            /\ Len(out) <= match_in.max_terms

(***************************************************************************)
(* Claims about rrf_fuse (checked under SpecFuse)                          *)
(***************************************************************************)
\* 1-based rank of cid in a ranking, 0 when absent.
RankIn(ranking, cid) ==
    IF \E i \in 1..Len(ranking) : ranking[i] = cid
    THEN CHOOSE i \in 1..Len(ranking) : ranking[i] = cid
    ELSE 0

Contribution(ranking, cid, rrf_k, w) ==
    IF RankIn(ranking, cid) = 0 THEN FracZero ELSE <<w, rrf_k + RankIn(ranking, cid)>>

\* w_lex/(rrf_k + rank in L) + w_vec/(rrf_k + rank in V), a missing rank contributing 0.
StatedScore(cid) ==
    FracAdd(Contribution(fuse_in.L, cid, fuse_out.rrf_k, fuse_out.w_bm25),
            Contribution(fuse_in.V, cid, fuse_out.rrf_k, fuse_out.w_vec))

FuseInputIds == Range(fuse_in.L) \cup Range(fuse_in.V)
ResultIds(result) == [i \in 1..Len(result) |-> result[i].chunk_id]

\* C8: every chunk id of either list gets the score
\* w_lex/(rrf_k + rank_L) + w_vec/(rrf_k + rank_V), ranks 1-based, 0 for a list
\* the id is absent from; the ids scored are exactly those of the two lists.
C8_FusedScoreIsRrfFormula ==
    fuse_out.done =>
        /\ Range(ResultIds(fuse_out.all)) = FuseInputIds
        /\ \A i \in 1..Len(fuse_out.all) :
             FracEq(fuse_out.all[i].fused_score, StatedScore(fuse_out.all[i].chunk_id))
        /\ \A i \in 1..Len(fuse_out.result) :
             FracEq(fuse_out.result[i].fused_score, StatedScore(fuse_out.result[i].chunk_id))

C8_Witness ==
    /\ fuse_out.done
    /\ fuse_out.rrf_k = DefaultRrfK
    /\ fuse_out.w_bm25 # fuse_out.w_vec
    /\ \E cid \in Range(fuse_in.L) \cap Range(fuse_in.V) :
         RankIn(fuse_in.L, cid) # RankIn(fuse_in.V, cid)
    /\ Range(fuse_in.L) \ Range(fuse_in.V) # {}
    /\ Range(fuse_in.V) \ Range(fuse_in.L) # {}

\* Order of first appearance: the lexical list, then the ids only the vector list has.
FirstSeen(cid) ==
    IF RankIn(fuse_in.L, cid) > 0 THEN RankIn(fuse_in.L, cid)
    ELSE Len(fuse_in.L) + RankIn(fuse_in.V, cid)

BeforeTieById(a, b) ==
    \/ FracLess(StatedScore(b), StatedScore(a))
    \/ FracEq(StatedScore(a), StatedScore(b)) /\ a < b

BeforeTieByFirstSeen(a, b) ==
    \/ FracLess(StatedScore(b), StatedScore(a))
    \/ FracEq(StatedScore(a), StatedScore(b)) /\ FirstSeen(a) < FirstSeen(b)

\* The result is the first top_k ids of the inputs under the order Before(_, _).
IsTopKUnder(Before(_, _)) ==
    LET ids == ResultIds(fuse_out.result)
    IN  /\ Len(ids) = Min(fuse_out.top_k, Cardinality(FuseInputIds))
        /\ Range(ids) \subseteq FuseInputIds
        /\ \A i, j \in 1..Len(ids) : i < j => Before(ids[i], ids[j])
        /\ \A i \in 1..Len(ids) : \A c \in FuseInputIds \ Range(ids) : Before(ids[i], c)

IsSpecExample ==
    /\ fuse_in.L = <<1, 2, 3>> /\ fuse_in.V = <<2, 3, 4>>
    /\ fuse_out.rrf_k = 60 /\ fuse_out.w_bm25 = 1 /\ fuse_out.w_vec = 1
    /\ fuse_out.top_k = DefaultTopK

\* C9 (as stated): the result is sorted by fused score descending, equal scores
\* by chunk id ascending, truncated to the first final_k; rankings [1,2,3] and
\* [2,3,4] with rrf_k = 60 and unit weights give 2, 3, 1, 4.
C9_SortedTiesByChunkId ==
    fuse_out.done =>
        /\ IsTopKUnder(BeforeTieById)
        /\ IsSpecExample => ResultIds(fuse_out.result) = <<2, 3, 1, 4>>

\* C9 (amended): the result is sorted by fused score descending, equal scores
\* in order of first appearance (lexical list first, then vector-only ids in
\* vector order), truncated to the first final_k; the example gives 2, 3, 1, 4.
C9_SortedTiesByFirstSeen ==
    fuse_out.done =>
        /\ IsTopKUnder(BeforeTieByFirstSeen)
        /\ IsSpecExample => ResultIds(fuse_out.result) = <<2, 3, 1, 4>>

C9_Witness ==
    /\ fuse_out.done
    /\ Len(fuse_out.result) = fuse_out.top_k
    /\ fuse_out.top_k < Cardinality(FuseInputIds)
    /\ \E i \in 1..(Len(fuse_out.result) - 1) :
         /\ FracEq(fuse_out.result[i].fused_score, fuse_out.result[i + 1].fused_score)
         /\ fuse_out.result[i].chunk_id > fuse_out.result[i + 1].chunk_id

C9_ExampleWitness == fuse_out.done /\ IsSpecExample

SwapRanks(ranking, i, j) ==
    [k \in 1..Len(ranking) |-> IF k = i THEN ranking[j]
                               ELSE IF k = j THEN ranking[i] ELSE ranking[k]]

\* The fused score rrf_fuse gives cid for the rankings L and V under the
\* parameters of the call recorded in fuse_out, before truncation.
FusedScoreOf(L, V, cid) ==
    LET all == rrf_fuse(AsResults(L), AsResults(V), fuse_out.rrf_k, fuse_out.w_bm25,
                        fuse_out.w_vec, Len(L) + Len(V))
    IN  all[FusedPos(all, cid)].fused_score

\* The fused score of cid in the call the state records.
RecordedScore(cid) == fuse_out.all[FusedPos(fuse_out.all, cid)].fused_score

\* C11: with the parameters and everything else fixed, moving an id of either
\* list to a better (smaller) rank of that list never lowers its fused score,
\* and moving it to a worse rank never raises it.  (The score does not depend
\* on top_k: the calls with the default top_k are compared.)
C11_ScoreMonotoneInRank ==
    (fuse_out.done /\ fuse_out.top_k = DefaultTopK) =>
        /\ \A i, j \in 1..Len(fuse_in.L) :
             i < j =>
               /\ ~FracLess(RecordedScore(fuse_in.L[i]),
                            FusedScoreOf(SwapRanks(fuse_in.L, i, j), fuse_in.V, fuse_in.L[i]))
               /\ ~FracLess(FusedScoreOf(SwapRanks(fuse_in.L, i, j), fuse_in.V, fuse_in.L[j]),
                            RecordedScore(fuse_in.L[j]))
        /\ \A i, j \in 1..Len(fuse_in.V) :
             i < j =>
               /\ ~FracLess(RecordedScore(fuse_in.V[i]),
                            FusedScoreOf(fuse_in.L, SwapRanks(fuse_in.V, i, j), fuse_in.V[i]))
               /\ ~FracLess(FusedScoreOf(fuse_in.L, SwapRanks(fuse_in.V, i, j), fuse_in.V[j]),
                            RecordedScore(fuse_in.V[j]))

\* A shared id that has a better and a worse rank to move to in both lists.
C11_Witness ==
    /\ fuse_out.done
    /\ fuse_out.top_k = DefaultTopK
    /\ fuse_out.w_bm25 # fuse_out.w_vec
    /\ Len(fuse_in.L) = 3
    /\ Len(fuse_in.V) = 3
    /\ fuse_in.L[2] = fuse_in.V[2]

(***************************************************************************)
(* Claims about the assembler (checked under SpecCite)                     *)
(***************************************************************************)

\* C6: for every text the chat model can return, when the fused list is
\* not empty the answer that answer_question returns after post-processing
\* and repair passes citation validation (the final citation_ok is true).
\* Stated for the parameters /query runs with.
C6_FinalCitationOk ==
    (/\ cite_out.done
     /\ cite_in.fused # <<>>
     /\ cite_out.min_unique = MinUniqueCitations
     /\ cite_out.require = RequireCitationPerParagraph)
        => cite_out.citation_ok

ChatCalls(trace) == {i \in 1..Len(trace) : trace[i] = "chat"}

\* C7: answer_question calls the chat model exactly once when the fused list
\* is not empty, as the first call of the pipeline, and never when the
\* fused list is empty; no chat call follows the first validation, whatever
\* validation and repair find.
C7_OneChatCallBeforeValidation ==
    cite_out.done =>
        IF cite_in.fused = <<>>
        THEN ChatCalls(cite_out.trace) = {}
        ELSE ChatCalls(cite_out.trace) = {1}

\* A request whose answer failed validation, went through both repairs and
\* still fails.
C7_Witness ==
    /\ cite_out.done
    /\ cite_in.fused # <<>>
    /\ \E i \in 1..Len(cite_out.trace) : cite_out.trace[i] = "inject"
    /\ \E i \in 1..Len(cite_out.trace) : cite_out.trace[i] = "rewrite"
    /\ ~cite_out.citation_ok

\* The ids a text cites, in either shape, and whether each paragraph of it
\* holds a citation.
CitedIds(text) == {text[i].id : i \in {j \in 1..Len(text) : IsCitation(text[j])}}
EveryParagraphCites(text) ==
    \A i \in 1..Len(split_paragraphs(text)) :
        \E j \in 1..Len(split_paragraphs(text)[i]) : IsCitation(split_paragraphs(text)[i][j])

\* What the claim has the validator report for a text.
StatedReason(text, allowed, min_unique, require) ==
    IF Cardinality(CitedIds(text)) < min_unique THEN "not enough unique citations"
    ELSE IF ~(CitedIds(text) \subseteq allowed) THEN "contains invalid citation ids"
    ELSE IF require /\ ~EveryParagraphCites(text) THEN "some paragraphs are missing citations"
    ELSE "ok"

CiteAllowed == {cite_in.fused[i].chunk_id : i \in 1..Len(cite_in.fused)}

\* C21: validate_citations_detailed returns ok exactly when the text cites at
\* least min_unique distinct ids, every cited id is allowed and, if asked
\* for, every paragraph holds a citation; otherwise its reason is the first
\* check that fails, in the order: not enough unique citations, contains
\* invalid citation ids, some paragraphs are missing citations.  Stated for
\* the first validation (of the cleaned chat output) and for the last.
C21_ValidatorVerdict ==
    (cite_out.done /\ cite_in.fused # <<>>) =>
        /\ cite_out.first_report.reason
              = StatedReason(cite_out.cleaned, CiteAllowed, cite_out.min_unique, cite_out.require)
        /\ cite_out.first_report.ok
              <=> /\ Cardinality(CitedIds(cite_out.cleaned)) >= cite_out.min_unique
                  /\ CitedIds(cite_out.cleaned) \subseteq CiteAllowed
                  /\ cite_out.require => EveryParagraphCites(cite_out.cleaned)
        /\ cite_out.citation_report.reason
              = StatedReason(cite_out.answer, CiteAllowed, cite_out.min_unique, cite_out.require)
        /\ cite_out.citation_ok <=> cite_out.citation_report.reason = "ok"

\* A text that fails the second and the third check: the reason is the
\* second.
C21_Witness ==
    /\ cite_out.done
    /\ cite_in.fused # <<>>
    /\ cite_out.min_unique = 1
    /\ cite_out.require
    /\ cite_out.first_report.reason = "contains invalid citation ids"
    /\ cite_out.first_report.missing_paragraphs # {}

\* The display tokens T of the drawn fused list, and whether the injection
\* ran: the first validation failed and reported paragraphs without a citation.
CiteTokens == [i \in 1..Len(cite_in.fused) |-> DisplayToken(cite_in.fused[i])]
InjectionRan ==
    /\ cite_out.done /\ cite_in.fused # <<>>
    /\ ~cite_out.first_report.ok
    /\ cite_out.first_report.missing_paragraphs # {}

\* Paragraph i (0-based) of the injected answer is paragraph i of the
\* cleaned answer, followed by T[i mod |T|] when the report listed i.
InjectedAsStated ==
    LET before == split_paragraphs(cite_out.cleaned)
        after == split_paragraphs(cite_out.injected)
    IN  /\ Len(after) = Len(before)
        /\ \A i \in 0..(Len(before) - 1) :
              after[i + 1] = IF i \in cite_out.first_report.missing_paragraphs
                             THEN Append(before[i + 1], CiteTokens[(i % Len(CiteTokens)) + 1])
                             ELSE before[i + 1]

\* C24: when validation reports paragraphs without a citation, the repair
\* appends the display token T[i mod |T|] to each such paragraph i and leaves
\* the other paragraphs as they are, and the validation that follows reports
\* no paragraph without a citation.
C24_InjectionCoversParagraphs ==
    InjectionRan =>
        /\ InjectedAsStated
        /\ cite_out.second_report.missing_paragraphs = {}

\* The rewrite ran: the validation before it failed and reported invalid ids.
RewriteRan ==
    /\ cite_out.done /\ cite_in.fused # <<>>
    /\ ~cite_out.second_report.ok
    /\ cite_out.second_report.invalid_ids # {}

\* C25: when the answer cites ids outside the allowed set, in the shape
\* [cid:N] or [Source: ... cid:N ...], the repair rewrites each such citation
\* to the first display token and leaves the citations of allowed ids as they
\* are, and the validation that follows reports no invalid ids.
C25_RewriteRemovesInvalidIds ==
    RewriteRan =>
        /\ Len(cite_out.answer) = Len(cite_out.injected)
        /\ \A i \in 1..Len(cite_out.injected) :
              IsCitation(cite_out.injected[i]) =>
                  cite_out.answer[i] = IF cite_out.injected[i].id \in CiteAllowed
                                       THEN cite_out.injected[i]
                                       ELSE CiteTokens[1]
        /\ cite_out.citation_report.invalid_ids = {}

(***************************************************************************)
(* Claims about ingestion (checked under SpecIngest)                       *)
(***************************************************************************)

\* C2: from empty stores, after any sequence of ingest requests that each
\* returned success, the chunk table, the full-text table and the vector
\* index (on disk and in the ingest route's manager) hold the same number
\* of entries, and every successful response has chunks_added equal to
\* vectors_added.
C2_CountsAgreeAfterSuccessfulIngests ==
    (hist.only_ingests /\ ing.pc = "idle") =>
        /\ Cardinality(chunks_fts) = Len(chunks)
        /\ Len(index_file.entries) = Len(chunks)
        /\ faiss["ingest"].loaded => Len(faiss["ingest"].entries) = Len(chunks)
        /\ (resp.to = "ingest" /\ resp.status = "ok")
              => resp.body.chunks_added = resp.body.vectors_added

\* The second successful upload has returned: both texts are stored.
C2_Witness ==
    /\ hist.only_ingests
    /\ ing.pc = "idle"
    /\ resp.to = "ingest"
    /\ resp.status = "ok"
    /\ resp.body.chunks_added = 1
    /\ Len(documents) = 2
    /\ Len(chunks) = 3

\* The committed chunk rows of a document, and the ids the index holds.
ChunksOf(rows, doc_id) == {k \in 1..Len(rows) : rows[k].document_id = doc_id}
IndexedIds(file, mgr) == {file.entries[k].id : k \in 1..Len(file.entries)}
                            \cup {mgr.entries[k].id : k \in 1..Len(mgr.entries)}

\* C23: the chunk rows of a document and their full-text rows become visible
\* in one step (the committed rows never hold a part of a document's chunks),
\* and a vector enters the index only in a later step than the one that made
\* its chunk row visible.
C23_ChunksAtOnceVectorsAfter ==
    [][/\ \A d \in 1..Len(documents') :
            /\ ChunksOf(chunks', d) \subseteq chunks_fts'
            /\ Cardinality(ChunksOf(chunks', d)) = NumChunks(documents'[d].sha256)
            /\ d <= Len(documents) => ChunksOf(chunks', d) = ChunksOf(chunks, d)
       /\ \A k \in 1..Len(chunks') : chunks'[k].document_id \in 1..Len(documents')
       /\ IndexedIds(index_file', faiss["ingest"]') \ IndexedIds(index_file, faiss["ingest"])
             \subseteq (1..Len(chunks)) \cap chunks_fts
      ]_vars

\* A document of two chunks is committed, and its vectors are not added yet.
C23_Witness ==
    /\ ing.pc = "embed"
    /\ Len(ing.chunk_entries) = 2
    /\ \A k \in 1..2 : /\ ing.chunk_entries[k].id \in (1..Len(chunks)) \cap chunks_fts
                       /\ ing.chunk_entries[k].id \notin IndexedIds(index_file, faiss["ingest"])
    /\ Len(documents) = 2

\* C3: ingesting bytes whose digest belongs to a stored document changes
\* neither the documents, the chunks, the full-text rows, the raw blobs nor
\* the vector index, and the file adds nothing to documents_added,
\* chunks_added and vectors_added; the request goes on to its next file.
C3_DuplicateDigestIsNoOp ==
    [][(/\ IngestStageFile
        /\ db_ready
        /\ \E i \in 1..Len(documents) : documents[i].sha256 = ing.files[ing.i].sha256)
          => /\ UNCHANGED <<documents, chunks, chunks_fts, raw_dir, index_file, faiss>>
             /\ ing'.pc = "file"
             /\ ing'.i = ing.i + 1
             /\ ing'.pending_docs = <<>>
             /\ ing'.pending_chunks = <<>>
             /\ ing'.chunk_entries = <<>>
             /\ ing'.documents_added = ing.documents_added
             /\ ing'.chunks_added = ing.chunks_added
             /\ ing'.vectors_added = ing.vectors_added]_vars

\* One request uploaded the same bytes twice under two names: the first file
\* was stored, the second skipped.
C3_Witness ==
    /\ resp.to = "ingest"
    /\ resp.status = "ok"
    /\ resp.body.received = <<"a.pdf", "c.pdf">>
    /\ resp.body.documents_added = 1
    /\ resp.dup_files = <<"c.pdf">>
    /\ Len(documents) = 1

\* C4: the summary of an ingest request has a field "skipped" that lists the
\* filename of every uploaded file skipped because its digest was stored.
C4_SummaryListsSkipped ==
    (resp.to = "ingest" /\ resp.status = "ok")
        => /\ "skipped" \in DOMAIN resp.body
           /\ resp.body.skipped = resp.dup_files

\* A step of the /query handler.
QueryStep ==
    \/ QueryReceive(Queries, Sessions, MaxMsgs)
    \/ QueryVector
    \/ QueryFuse(FALSE)
    \/ QueryChat(FALSE)

\* C15: no step of /query creates, deletes or modifies a document, a chunk,
\* a full-text row or the vector index file (its existence, its dimension,
\* its vectors); the one persistent effect is rows appended to chat_messages.
C15_QueryLeavesStoresAlone ==
    [][(q' # q /\ QueryStep)
          => /\ UNCHANGED <<db_ready, documents, chunks, chunks_fts, raw_dir, index_file>>
             /\ Len(chat_messages') >= Len(chat_messages)
             /\ SubSeq(chat_messages', 1, Len(chat_messages)) = chat_messages]_vars

\* C28: once an /ingest has returned success, the vector search of every
\* later /query covers the vectors it added, also when /query had opened the
\* index before.  (With no upload in flight and no upload failed so far,
\* every entry of the index file was added by an /ingest that returned.)
C28_QuerySearchesIngestedVectors ==
    [][(/\ q.pc = "vector" /\ q'.pc = "fuse"
        /\ ing.pc = "idle" /\ hist.only_ingests)
          => Range(index_file.entries) \subseteq Range(q'.seen_index)]_vars

\* The digest of the bytes uploaded under a name.
DigestOfUpload(filename) == (CHOOSE u \in Uploads : u.filename = filename).sha256

\* C30: when an upload failed in the embedding or vector-add step after its
\* rows were committed, uploading the same bytes again adds the missing
\* vectors: after an /ingest that returned success and carried the bytes of
\* every stored document, every chunk has its vector and the counts agree.
C30_RetryAddsMissingVectors ==
    (/\ resp.to = "ingest" /\ resp.status = "ok"
     /\ \A d \in 1..Len(documents) :
           \E k \in 1..Len(resp.body.received) :
               DigestOfUpload(resp.body.received[k]) = documents[d].sha256)
        => /\ Len(index_file.entries) = Len(chunks)
           /\ (1..Len(chunks)) \subseteq IndexedIds(index_file, faiss["ingest"])

(***************************************************************************)
(* Claims about the administered server (checked under Spec)               *)
(***************************************************************************)

\* The dimension the chat route's manager searches with: its own when it
\* holds an index, else that of the index file it is about to load, else
\* that of the query vector.
SearchDim ==
    IF faiss["chat"].loaded THEN faiss["chat"].dim
    ELSE IF index_file.exists THEN index_file.d
    ELSE EmbedDim(q.embedder)

\* C1: when the embedding model's dimension differs from the dimension of
\* the vector index, the vector step of /query does not fail the request:
\* the request goes on to fusion with the lexical hits only.
C1_QueryCompletesOnMismatch ==
    [][(QueryVector /\ EmbedDim(q.embedder) # SearchDim)
          => /\ resp'.status # "error"
             /\ q'.pc = "fuse"
             /\ q'.bm25_results = q.bm25_results
             /\ q'.vec_ids = <<>>]_vars

\* C5: after ingests, queries, model changes and resets followed by a
\* restart, every id in the vector index is the id of a stored chunk and no
\* id has two entries in the index.
C5_IndexIdsAreChunkIds ==
    ~hist.restart_due =>
        /\ \A i \in 1..Len(index_file.entries) :
              index_file.entries[i].id \in 1..Len(chunks)
        /\ \A i, j \in 1..Len(index_file.entries) :
              i # j => index_file.entries[i].id # index_file.entries[j].id

(***************************************************************************)
(* Claims about model changes (checked under SpecModels)                   *)
(***************************************************************************)

\* The dimensions of the vector index as it exists: that of the index file
\* and that of every manager holding an index.
ExistingIndexDims ==
    {index_file.d : x \in {y \in {1} : index_file.exists}}
        \cup {faiss[r].dim : r \in {t \in Routes : faiss[t].loaded}}

\* The chat field of the request answered by the step failed.
ChatFieldFailed(response) ==
    response.request.chat_model # None /\ response.probes.chat_model = "not found"

C13_PersistedConfigIsActive ==
    [][/\ (/\ resp'.to = "models"
           /\ update_models(AllModelRequests)
           /\ resp'.status = "ok"
           /\ resp'.body.changes # {})
          => /\ model_config'.exists
             /\ model_config'.chat_model = current'.chat_model
             /\ model_config'.embed_model = current'.embed_model
             /\ \A f \in {"chat_model", "embed_model"} :
                   resp'.request[f] = None =>
                     /\ current'[f] = current[f]
                     /\ model_config.exists => model_config'[f] = model_config[f]
       /\ (Restart /\ model_config.exists)
          => /\ current'.chat_model = model_config.chat_model
             /\ current'.embed_model = model_config.embed_model
             /\ llm' = [r \in LlmRoutes |-> model_config.chat_model]
             /\ embedder' = [r \in Routes |-> model_config.embed_model]]_vars

\* C14: in a model-set request that names a chat model, a probe failing with
\* model-not-found fails the request (400 whose detail holds errors and
\* changes) and leaves the chat client of every route and the active chat
\* model name as they were; a probe failing with any other error has the
\* candidate accepted: it is the chat client of every route and the active
\* chat model name, and the change is recorded.
C14_ChatProbeOutcomes ==
    [][(/\ resp'.to = "models"
        /\ update_models(AllModelRequests)
        /\ resp'.request.chat_model # None)
          => /\ resp'.probes.chat_model = "not found"
                  => /\ resp'.status = "error"
                     /\ "chat_model" \in resp'.body.errors
                     /\ "chat_model" \notin resp'.body.changes
                     /\ llm' = llm
                     /\ current'.chat_model = current.chat_model
                     /\ model_config' = model_config
             /\ resp'.probes.chat_model = "error"
                  => /\ llm' = [r \in LlmRoutes |-> resp'.request.chat_model]
                     /\ current'.chat_model = resp'.request.chat_model
                     /\ "chat_model" \in resp'.body.changes
                     /\ "chat_model" \notin resp'.body.errors]_vars

\* A request for an unknown chat model was refused while "c2", accepted by
\* an earlier request, stays the active chat model.
C14_Witness ==
    /\ resp.to = "models"
    /\ resp.status = "error"
    /\ resp.request.chat_model = "missing"
    /\ resp.probes.chat_model = "not found"
    /\ current.chat_model = "c2"
    /\ llm["chat"] = "c2"

\* C27: a model change replaces the client in every component that holds one
\* (chat: query and debug-citations; embed: query, debug-retrieval,
\* debug-citations and ingest) within one step, so in every state, also while
\* an upload is being served, all components hold the same chat client and
\* the same embedding client, the one of the last change.
C27_AllComponentsSwapTogether ==
    /\ \A r \in LlmRoutes : llm[r] = current.chat_model
    /\ \A r \in Routes : embedder[r] = current.embed_model
    /\ (resp.to = "models" /\ "chat_model" \in resp.body.changes)
          => \A r \in LlmRoutes : llm[r] = resp.request.chat_model
    /\ (resp.to = "models" /\ "embed_model" \in resp.body.changes)
          => \A r \in Routes : embedder[r] = resp.request.embed_model

\* Both models were changed by one request while an upload was being served
\* that had started on the embedder of before.
C27_Witness ==
    /\ resp.to = "models"
    /\ resp.body.changes = {"chat_model", "embed_model"}
    /\ resp.request.chat_model # DefaultChatModel
    /\ resp.request.embed_model # DefaultEmbedModel
    /\ ing.pc = "embed"
    /\ ing.embedder = DefaultEmbedModel

\* C29: after every POST /models, answered with success or with 400, the
\* persisted record names the models that are active in memory (with no
\* record, the defaults the next start would take).
C29_PersistedAgreesAfterEveryRequest ==
    resp.to = "models" =>
        /\ get_initial_chat_model(model_config) = current.chat_model
        /\ get_initial_embed_model(model_config) = current.embed_model
        /\ \A r \in LlmRoutes : llm[r] = get_initial_chat_model(model_config)
        /\ \A r \in Routes : embedder[r] = get_initial_embed_model(model_config)

(***************************************************************************)
(* Claims about the turns of /query (checked under SpecChat)               *)
(***************************************************************************)

\* A log of whole turns: a user message, then the assistant message that
\* answers the same question, and so on.
WellPaired(log) ==
    /\ Len(log) % 2 = 0
    /\ \A k \in 1..(Len(log) \div 2) :
          /\ log[2 * k - 1].role = "user"
          /\ log[2 * k].role = "assistant"
          /\ log[2 * k].query = log[2 * k - 1].query

\* C16: for every turn, refused or answered, the log of its session receives
\* the turn's user message and then the turn's assistant message, one of
\* each: the log of a session is a sequence of whole turns, followed by the
\* user message of the turn in flight if the session has one.  The order
\* between the messages of different sessions is not constrained.
C16_UserThenAssistantPerTurn ==
    \A s \in TwoSessions :
        LET log == SessionLog(chat_messages, s)
        IN  IF q.pc # "idle" /\ q.session_id = s
            THEN /\ Len(log) % 2 = 1
                 /\ WellPaired(SubSeq(log, 1, Len(log) - 1))
                 /\ log[Len(log)].role = "user"
                 /\ log[Len(log)].query = q.query
            ELSE WellPaired(log)

\* Two turns are over, one refused and one answered.
C16_Witness ==
    /\ q.pc = "idle"
    /\ Len(chat_messages) = 4
    /\ \E i \in 1..4 : chat_messages[i].role = "assistant" /\ chat_messages[i].answer = RefusalText
    /\ \E i \in 1..4 : /\ chat_messages[i].role = "assistant"
                        /\ chat_messages[i].answer # RefusalText

\* C17: a /query whose lexical search and vector search both return nothing
\* answers with the fixed refusal text and no sources, as a normal result,
\* and the refusal is the assistant message appended to the session's log
\* after the turn's user message.
C17_RefusalWhenNothingRetrieved ==
    (/\ resp.to = "query"
     /\ "hits" \in DOMAIN resp
     /\ resp.hits.bm25_results = <<>>
     /\ resp.hits.vec_results = <<>>)
        => /\ resp.status = "ok"
           /\ resp.body.answer = RefusalText
           /\ resp.body.sources = <<>>
           /\ resp.body.chat_calls = 0
           /\ Len(chat_messages) >= 2
           /\ LET last == chat_messages[Len(chat_messages)]
                  asked == chat_messages[Len(chat_messages) - 1]
              IN  /\ last.role = "assistant"
                  /\ last.answer = RefusalText
                  /\ asked.role = "user"
                  /\ asked.session_id = last.session_id
                  /\ asked.query = last.query

\* A question asked of empty stores was refused.
C17_Witness ==
    /\ resp.to = "query"
    /\ resp.status = "ok"
    /\ resp.hits.bm25_results = <<>>
    /\ resp.hits.vec_results = <<>>
    /\ resp.body.answer = RefusalText
    /\ Len(chunks) = 0

C19_WrongWidthFails ==
    [][/\ (/\ resp'.to = "index"
           /\ CallAdd
           /\ resp'.width # faiss["ingest"].dim)
          => /\ resp'.status = "error"
             /\ UNCHANGED <<faiss, index_file>>
       /\ (/\ resp'.to = "index"
           /\ CallSearch
           /\ resp'.width # faiss[resp'.manager].dim)
          => /\ resp'.status = "error"
             /\ resp'.body.ids = <<>>]_vars

\* An add of vectors narrower than the index was refused while the index
\* holds vectors.
C19_Witness ==
    /\ resp.to = "index"
    /\ resp.op = "add"
    /\ resp.status = "error"
    /\ resp.width < faiss["ingest"].dim
    /\ Len(faiss["ingest"].entries) = 2
    /\ Len(index_file.entries) = 2

\* C20: when add returns, the index file holds what it held before and the
\* vectors just added, and it is the index of the manager that added; a
\* manager that then opens the directory holds the ids of the file, in the
\* same number, and has the file's dimension whatever dim it was given.
C20_AddIsSavedAndReloaded ==
    [][/\ (/\ resp'.to = "index"
           /\ CallAdd
           /\ resp'.status = "ok")
          => /\ index_file'.exists
             /\ index_file'.entries = index_file.entries \o resp'.new_entries
             /\ index_file'.entries = faiss'["ingest"].entries
             /\ index_file'.d = faiss'["ingest"].dim
       /\ (/\ resp'.to = "index"
           /\ CallLoadOrCreate
           /\ index_file.exists)
          => /\ faiss'[resp'.manager].loaded
             /\ faiss'[resp'.manager].entries = index_file.entries
             /\ faiss'[resp'.manager].dim = index_file.d
             /\ faiss["ingest"].loaded
                  => faiss'[resp'.manager].entries = faiss["ingest"].entries
             /\ UNCHANGED index_file]_vars

\* After two adds a manager opened the directory with another dimension
\* than the file's and holds the three vectors.
C20_Witness ==
    /\ resp.to = "index"
    /\ resp.op = "load_or_create"
    /\ resp.manager = "chat"
    /\ resp.width # index_file.d
    /\ faiss["chat"].dim = index_file.d
    /\ Len(faiss["chat"].entries) = 3
    /\ faiss["ingest"].loaded
    /\ faiss["chat"].entries = faiss["ingest"].entries

====
